---- MODULE Spec2Model ----
(***************************************************************************)
(* A state-machine model of the PyNBIS C extension, pynbis/_nbis_ext.c:    *)
(* the module globals, the module initialisation and the four entrypoints  *)
(* extract_minutiae, match_fingerprints, compute_nfiq and match_xyt.  Each *)
(* entrypoint is one action that runs the whole handler; the record `last` *)
(* holds what the handler did (its result, the error indicator, the engine *)
(* calls it made, the C buffers and the Python references it left behind). *)
(* The NBIS engines (lfs_detect_minutiae_V2, comp_nfiq, bz_match_score)    *)
(* are vendored code outside the wrapper; they are modelled by tables.     *)
(***************************************************************************)
EXTENDS Integers, Sequences, FiniteSets, TLC

VARIABLES m1_xyt, max_minutiae, min_computable_minutiae,
          verbose_main, verbose_load, verbose_bozorth, verbose_threshold,
          errorfp, initialised, last, memo

globals == <<m1_xyt, max_minutiae, min_computable_minutiae,
             verbose_main, verbose_load, verbose_bozorth, verbose_threshold,
             errorfp>>

vars == <<m1_xyt, max_minutiae, min_computable_minutiae,
          verbose_main, verbose_load, verbose_bozorth, verbose_threshold,
          errorfp, initialised, last, memo>>

(***************************************************************************)
(* Bounds and program constants.                                           *)
(***************************************************************************)

\* The row capacity of an xyt_struct.  bozorth.h sets 200; the model scales
\* it down so that lists longer than the cap are enumerable.
MAX_BOZORTH_MINUTIAE == 2

\* How many records beyond the cap an input list may hold.
MaxOver == 1

DEFAULT_BOZORTH_MINUTIAE == 150

MIN_COMPUTABLE_BOZORTH_MINUTIAE == 10

DEFAULT_PPI == 500

MaxListLen == MAX_BOZORTH_MINUTIAE + MaxOver

Min(a, b) == IF a < b THEN a ELSE b

(***************************************************************************)
(* Python objects handed to match_xyt.                                     *)
(***************************************************************************)

PyInt(n) == [ty |-> "int", v |-> n]

PyStr == [ty |-> "str", v |-> 0]

Absent == [ty |-> "absent", v |-> 0]

\* A well-formed minutia record for list position i.  Its quality rises
\* with the position, so the last record of a list is the most reliable.
GoodRecord(i) ==
  [isDict |-> TRUE,
   d |-> [x |-> PyInt(i), y |-> PyInt(i + 1), direction |-> PyInt(2 * i),
          quality |-> PyInt(i)]]

NotDict == [isDict |-> FALSE,
            d |-> [x |-> Absent, y |-> Absent, direction |-> Absent,
                   quality |-> Absent]]

BadKinds == {"notdict", "no_x", "no_y", "no_direction",
             "str_x", "str_y", "str_direction"}

BadRecord(i, kind) ==
  CASE kind = "notdict" -> NotDict
    [] kind = "no_x" -> [GoodRecord(i) EXCEPT !.d.x = Absent]
    [] kind = "no_y" -> [GoodRecord(i) EXCEPT !.d.y = Absent]
    [] kind = "no_direction" -> [GoodRecord(i) EXCEPT !.d.direction = Absent]
    [] kind = "str_x" -> [GoodRecord(i) EXCEPT !.d.x = PyStr]
    [] kind = "str_y" -> [GoodRecord(i) EXCEPT !.d.y = PyStr]
    [] kind = "str_direction" -> [GoodRecord(i) EXCEPT !.d.direction = PyStr]

\* A record is malformed when it is not a dict, misses x, y or direction,
\* or holds a non-integer for one of them.
Malformed(item) ==
  \/ ~item.isDict
  \/ \E k \in {"x", "y", "direction"} : item.d[k].ty # "int"

GoodList(n) == [isList |-> TRUE, items |-> [i \in 1..n |-> GoodRecord(i)]]

BadList(n, pos, kind) ==
  [isList |-> TRUE,
   items |-> [i \in 1..n |-> IF i = pos THEN BadRecord(i, kind)
                              ELSE GoodRecord(i)]]

NotAList == [isList |-> FALSE, items |-> <<>>]

\* A well-formed list whose records differ from those of GoodList(n).
ShiftedList(n) ==
  [isList |-> TRUE, items |-> [i \in 1..n |-> GoodRecord(i + 1)]]

\* The argument objects: well-formed lists of every length up to
\* MaxListLen, the same lists with one malformed record at any position,
\* an object that is not a list, and a second one-record list.
ListsUpTo(maxlen) ==
  {GoodList(n) : n \in 0..maxlen}
    \cup {BadList(n, pos, kind) :
            <<n, pos, kind>> \in {t \in (1..maxlen) \X (1..maxlen) \X BadKinds :
                                    t[2] <= t[1]}}
    \cup {NotAList}

Lists == ListsUpTo(MaxListLen) \cup {ShiftedList(1)}

(***************************************************************************)
(* Results of a call.                                                      *)
(***************************************************************************)

\* One engine invocation: the function, whose data it ran on, its arguments.
Event(fn, who, a) == [fn |-> fn, who |-> who, args |-> a]

NoXyt == [nrows |-> 0, xcol |-> <<>>, ycol |-> <<>>, thetacol |-> <<>>]

\* The value a handler returns: NULL, or a Python object.
NullRet == [kind |-> "NULL", score |-> 0, minutiae |-> <<>>, count |-> 0,
            binarized |-> <<>>, quality |-> 0, confidence |-> 0,
            return_code |-> 0]

PyLong_FromLong(n) == [NullRet EXCEPT !.kind = "int", !.score = n]

NoCall == [op |-> "none", args |-> <<>>, ret |-> NullRet, exc |-> "none",
           trace |-> <<>>, probe_xyt |-> NoXyt, gallery_xyt |-> NoXyt,
           heap |-> <<>>, refs |-> <<>>, caller |-> <<>>]

(***************************************************************************)
(* The matcher (vendored bozorth3, outside the wrapper).  Section 4.3 of   *)
(* the specification: the score counts the correspondences of the largest  *)
(* consistent cluster, and fewer than two correspondences score 0.  Only   *)
(* rows 0..nrows-1 of the first np rows of each structure are read.        *)
(***************************************************************************)

\* A cell of a row array.  A cell the caller never wrote holds what an
\* earlier call left in that memory.
XytCell(col, i) ==
  IF i \in DOMAIN col THEN col[i]
  ELSE IF memo.op = "none" THEN 0 ELSE 1

XytRows(np, s) ==
  {<<XytCell(s.xcol, i), XytCell(s.ycol, i), XytCell(s.thetacol, i)>> :
     i \in 1..Min(np, s.nrows)}

bz_match_score(np, pstruct, gstruct) ==
  LET common == Cardinality(XytRows(np, pstruct) \cap XytRows(np, gstruct))
  IN IF common >= 2 THEN common ELSE 0

(***************************************************************************)
(* match_xyt                                                               *)
(***************************************************************************)

\* PyLong_AsLong: the value of an int; -1 with the error indicator set for
\* any other object.
PyLong_AsLong(o) ==
  IF o.ty = "int" THEN [v |-> o.v, err |-> FALSE]
  ELSE [v |-> -1, err |-> TRUE]

\* One pass of a parse loop (lines 361-380 and 383-402): acc holds the
\* structure under construction, the error indicator and whether the loop
\* has returned NULL.
RECURSIVE ParseMinutiae(_, _, _, _)
ParseMinutiae(items, count, i, acc) ==
  IF i > count THEN acc
  ELSE
    LET item == items[i]
        x_obj == item.d.x
        y_obj == item.d.y
        t_obj == item.d.direction
    IN IF ~item.isDict
         THEN [acc EXCEPT !.failed = TRUE, !.exc = "TypeError"]
       ELSE IF x_obj.ty = "absent" \/ y_obj.ty = "absent"
                 \/ t_obj.ty = "absent"
         THEN [acc EXCEPT !.failed = TRUE, !.exc = "ValueError"]
       ELSE
         LET x == PyLong_AsLong(x_obj)
             y == PyLong_AsLong(y_obj)
             t == PyLong_AsLong(t_obj)
         IN ParseMinutiae(items, count, i + 1,
              [acc EXCEPT !.xyt.xcol = Append(@, x.v),
                          !.xyt.ycol = Append(@, y.v),
                          !.xyt.thetacol = Append(@, t.v),
                          !.maxidx = i - 1,
                          !.exc = IF x.err \/ y.err \/ t.err
                                  THEN "TypeError" ELSE @])

\* Lines 357-358 setting nrows to the capacity of the structure.
ParseStart_FullRows(count, exc) ==
  [xyt |-> [NoXyt EXCEPT !.nrows = MAX_BOZORTH_MINUTIAE], exc |-> exc,
   failed |-> FALSE, maxidx |-> -1]

\* Lines 349-358: the structure is on the stack with no row written, and
\* nrows is the clamped count.
ParseStart(count, exc) ==
  [xyt |-> [NoXyt EXCEPT !.nrows = count], exc |-> exc, failed |-> FALSE,
   maxidx |-> -1]

\* Lines 354-355 without the clamp.
ClampCount_NoClamp(count) == count

\* Lines 354-355: a list longer than the cap is cut to the cap.
ClampCount(count) ==
  IF count > MAX_BOZORTH_MINUTIAE THEN MAX_BOZORTH_MINUTIAE ELSE count

\* Lines 343-346 also refusing a list without records.
ListsAccepted_NonEmpty(probe_list, gallery_list) ==
  /\ probe_list.isList /\ Len(probe_list.items) > 0
  /\ gallery_list.isList /\ Len(gallery_list.items) > 0

\* The argument test of lines 343-346.
ListsAccepted(probe_list, gallery_list) ==
  probe_list.isList /\ gallery_list.isList

nbis_match_xyt(probe_list, gallery_list) ==
  LET call == [NoCall EXCEPT !.op = "match_xyt",
                             !.args = <<probe_list, gallery_list>>]
  IN
  IF ~ListsAccepted(probe_list, gallery_list)
    THEN [call EXCEPT !.exc = "TypeError"]
  ELSE
    LET probe_count == ClampCount(Len(probe_list.items))
        gallery_count == ClampCount(Len(gallery_list.items))
        p == ParseMinutiae(probe_list.items, probe_count, 1,
                           ParseStart(probe_count, "none"))
    IN IF p.failed
         THEN [call EXCEPT !.exc = p.exc, !.probe_xyt = p.xyt]
       ELSE
         LET g == ParseMinutiae(gallery_list.items, gallery_count, 1,
                                ParseStart(gallery_count, p.exc))
         IN IF g.failed
              THEN [call EXCEPT !.exc = g.exc, !.probe_xyt = p.xyt,
                                !.gallery_xyt = g.xyt]
            ELSE
              [call EXCEPT
                 !.ret = PyLong_FromLong(
                           bz_match_score(DEFAULT_BOZORTH_MINUTIAE,
                                          p.xyt, g.xyt)),
                 !.exc = g.exc,
                 !.trace = <<Event("bz_match_score", "-",
                                   <<DEFAULT_BOZORTH_MINUTIAE>>)>>,
                 !.probe_xyt = p.xyt,
                 !.gallery_xyt = g.xyt]

(***************************************************************************)
(* Image arguments.                                                        *)
(***************************************************************************)

\* The height and the width of the model's images.
ImgH == 2

ImgW == 3

RIDGE_ENDING == 1

BIFURCATION == 0

EMPTY_IMG == 1

\* What an image shows; the engines' outcome is a function of it.
Contents == {"ridges", "dense", "blank", "empty_img", "fatal"}

ArrayImage(shape, content) ==
  [isArray |-> TRUE, castable |-> TRUE, shape |-> shape, content |-> content]

ValidImages ==
  {ArrayImage(<<ImgH, ImgW>>, c) : c \in Contents}
    \cup {ArrayImage(<<ImgH, ImgW, 1>>, "ridges")}

InvalidImages ==
  {ArrayImage(<<ImgH>>, "ridges"),
   ArrayImage(<<ImgH, ImgW, 3>>, "ridges"),
   ArrayImage(<<ImgH, ImgW, 1, 1>>, "ridges"),
   [ArrayImage(<<ImgH, ImgW>>, "ridges") EXCEPT !.castable = FALSE],
   [ArrayImage(<<ImgH, ImgW>>, "ridges") EXCEPT !.isArray = FALSE]}

\* The number of values of a C int.  The build has 2^32; the model keeps
\* the two's-complement wrap at a width the checker's integers can hold.
IntModulus == 2 ^ 16

\* A dimension whose square is IntModulus.
IntRoot == 2 ^ 8

\* Arrays of the accepted shape whose dimensions or whose pixel count do not
\* fit an int.
LargeImages ==
  {ArrayImage(<<IntModulus + ImgH, ImgW>>, "ridges"),
   ArrayImage(<<IntRoot, IntRoot>>, "fatal")}

Images == ValidImages \cup LargeImages \cup InvalidImages

PpiValues == {DEFAULT_PPI, 1000}

\* Lines 65-77 without the test of the channel count.
ShapeAccepted_AnyChannels(shape) == Len(shape) = 2 \/ Len(shape) = 3

\* The shape test of lines 65-77.
ShapeAccepted(shape) ==
  \/ Len(shape) = 2
  \/ Len(shape) = 3 /\ shape[3] = 1

(***************************************************************************)
(* C buffers and Python references.                                        *)
(***************************************************************************)

\* free(): a no-op on NULL, releases a live buffer; a second free of the
\* same buffer and a free of a pointer that was never assigned are errors.
Free(h, b) ==
  [h EXCEPT ![b] = CASE @ = "null" -> "null"
                     [] @ = "live" -> "freed"
                     [] @ = "freed" -> "double_free"
                     [] @ = "uninit" -> "bad_free"
                     [] OTHER -> @]

RECURSIVE FreeAll(_, _)
FreeAll(h, bs) ==
  IF bs = <<>> THEN h ELSE FreeAll(Free(h, Head(bs)), Tail(bs))

SetAll(h, bs, status) == [b \in DOMAIN h |-> IF b \in bs THEN status ELSE h[b]]

Py_INCREF(r, o) == [r EXCEPT ![o] = @ + 1]

Py_DECREF(r, o) == [r EXCEPT ![o] = @ - 1]

(***************************************************************************)
(* The engines (vendored NBIS, outside the wrapper), as tables over the    *)
(* image content.  The detector assigns its outputs only when it returns   *)
(* 0; a positive code is a non-fatal algorithmic condition, a negative     *)
(* code a system failure.                                                  *)
(***************************************************************************)

Minutia(i, w, h) ==
  [x |-> (i - 1) % w, y |-> ((i - 1) \div w) % h, direction |-> i,
   type |-> IF i % 2 = 1 THEN RIDGE_ENDING ELSE BIFURCATION,
   reliability |-> 10 * i]

BinarizedPixels(w, h) == [i \in 1..(w * h) |-> IF i % 2 = 0 THEN 255 ELSE 0]

lfs_detect_minutiae_V2(content, w, h) ==
  LET found(n) == [ret |-> 0, minutiae |-> [i \in 1..n |-> Minutia(i, w, h)],
                   bw |-> w, bh |-> h, binarized |-> BinarizedPixels(w, h)]
      none(code) == [ret |-> code, minutiae |-> <<>>, bw |-> 0, bh |-> 0,
                     binarized |-> <<>>]
  IN CASE content = "ridges" -> found(2)
       [] content = "dense" -> found(MAX_BOZORTH_MINUTIAE + MaxOver)
       [] content = "blank" -> found(0)
       [] content = "empty_img" -> none(EMPTY_IMG)
       [] content = "fatal" -> none(-1)

comp_nfiq(content, w, h, depth, ppi) ==
  CASE content = "ridges" -> [ret |-> 0, nfiq |-> 2, conf |-> 80]
    [] content = "dense" -> [ret |-> 0, nfiq |-> 1, conf |-> 90]
    [] content = "blank" -> [ret |-> EMPTY_IMG, nfiq |-> 5, conf |-> 100]
    [] content = "empty_img" -> [ret |-> EMPTY_IMG, nfiq |-> 5, conf |-> 100]
    [] content = "fatal" -> [ret |-> -1, nfiq |-> 0, conf |-> 0]

(***************************************************************************)
(* py_to_image_data                                                        *)
(***************************************************************************)

\* The narrowing of an npy_intp to int.
CastInt(n) ==
  LET m == n % IntModulus
  IN IF m >= IntModulus \div 2 THEN m - IntModulus ELSE m

\* Lines 51-95 returning the array's own buffer instead of a copy.
py_to_image_data_NoCopy(image_obj, oom) ==
  LET none(exc) == [data |-> "null", exc |-> exc, width |-> 0, height |-> 0,
                    depth |-> 0, data_size |-> 0, private |-> TRUE]
  IN IF ~image_obj.isArray THEN none("TypeError")
     ELSE IF ~image_obj.castable THEN none("ValueError")
     ELSE IF ~ShapeAccepted(image_obj.shape) THEN none("ValueError")
     ELSE LET height == CastInt(image_obj.shape[1])
              width == CastInt(image_obj.shape[2])
          IN [data |-> "live", exc |-> "none", width |-> width,
              height |-> height, depth |-> 8,
              data_size |-> CastInt(width * height), private |-> FALSE]

\* oom: malloc returns NULL.  private: the buffer returned is the block
\* malloc gave, filled by memcpy (lines 81-87).  The int product of line 80
\* wraps as the narrowing does; what malloc makes of the wrapped size is
\* left to oom.
py_to_image_data(image_obj, oom) ==
  LET none(exc) == [data |-> "null", exc |-> exc, width |-> 0, height |-> 0,
                    depth |-> 0, data_size |-> 0, private |-> TRUE]
  IN IF ~image_obj.isArray THEN none("TypeError")
     ELSE IF ~image_obj.castable THEN none("ValueError")
     ELSE IF ~ShapeAccepted(image_obj.shape) THEN none("ValueError")
     ELSE LET height == CastInt(image_obj.shape[1])
              width == CastInt(image_obj.shape[2])
          IN IF oom THEN none("MemoryError")
             ELSE [data |-> "live", exc |-> "none", width |-> width,
                   height |-> height, depth |-> 8,
                   data_size |-> CastInt(width * height), private |-> TRUE]

\* The conversion as the trace records it: the width, the height and the
\* buffer length it produced, nothing when it failed.
ConvEvent(who, img) ==
  Event("py_to_image_data", who,
        IF img.data = "null" THEN <<>>
        ELSE <<img.width, img.height, img.data_size>>)

\* What the call leaves of the caller's array.  The engines work on the
\* buffer they are handed and the handler frees it (lines 135, 220-221,
\* 234-251, 317).
CallerArray(img) ==
  IF img.data = "null" \/ img.private THEN "intact" ELSE "freed"

(***************************************************************************)
(* extract_minutiae                                                        *)
(***************************************************************************)

ExtractBuffers == {"image_data", "minutiae", "direction_map",
                   "low_contrast_map", "low_flow_map", "high_curve_map",
                   "binarized"}

DetectorOutputs == {"minutiae", "direction_map", "low_contrast_map",
                    "low_flow_map", "high_curve_map", "binarized"}

\* Lines 146-157 with the two coordinates exchanged.
MinDict_SwappedXY(m) ==
  [x |-> m.y, y |-> m.x, direction |-> m.direction, type |-> m.type,
   quality |-> m.reliability,
   type_str |-> IF m.type = RIDGE_ENDING THEN "ending" ELSE "bifurcation"]

\* Lines 146-157 with the two type names exchanged.
MinDict_InvertedTypeStr(m) ==
  [x |-> m.x, y |-> m.y, direction |-> m.direction, type |-> m.type,
   quality |-> m.reliability,
   type_str |-> IF m.type = RIDGE_ENDING THEN "bifurcation" ELSE "ending"]

\* Lines 146-157: the dict built for one minutia.
MinDict(m) ==
  [x |-> m.x, y |-> m.y, direction |-> m.direction, type |-> m.type,
   quality |-> m.reliability,
   type_str |-> IF m.type = RIDGE_ENDING THEN "ending" ELSE "bifurcation"]

\* Lines 144-157 putting each new dict at the front of the list.
MinutiaeList_Prepended(minutiae) ==
  [i \in 1..Len(minutiae) |-> MinDict(minutiae[Len(minutiae) + 1 - i])]

\* Lines 144-157: one dict per detected minutia, appended in detection
\* order.
MinutiaeList(minutiae) ==
  [i \in 1..Len(minutiae) |-> MinDict(minutiae[i])]

\* Lines 143-170: the reference counts the result building leaves behind.
\* Each min_dict is created (1), appended (2) and released (1).
ExtractRefs(num) ==
  LET r0 == [result |-> 1, minutiae_list |-> 1, count |-> 0, bin_array |-> 0,
             min_dict |-> <<>>]
      d0 == [min_dict |-> 1]
      d1 == Py_DECREF(Py_INCREF(d0, "min_dict"), "min_dict")
      r1 == [r0 EXCEPT !.min_dict = [i \in 1..num |-> d1.min_dict]]
      r2 == Py_INCREF(r1, "minutiae_list")
      r3 == Py_INCREF([r2 EXCEPT !.count = 1], "count")
      r4 == Py_INCREF([r3 EXCEPT !.bin_array = 1], "bin_array")
      r5 == Py_DECREF(r4, "minutiae_list")
      r6 == Py_DECREF(r5, "bin_array")
  IN r6

\* Lines 162-166: the array made for the binarized image.
BinArray(det) ==
  [shape |-> <<det.bh, det.bw>>,
   data |-> SubSeq(det.binarized, 1, det.bw * det.bh)]

nbis_extract_minutiae(image_obj, ppi, oom) ==
  LET call == [NoCall EXCEPT !.op = "extract_minutiae",
                             !.args = <<image_obj, ppi, oom>>]
      h0 == [b \in ExtractBuffers |-> IF b = "image_data" THEN "uninit"
                                      ELSE "null"]
      img == py_to_image_data(image_obj, oom)
      cv == ConvEvent("image", img)
      h1 == [h0 EXCEPT !["image_data"] = img.data]
      ca == <<CallerArray(img)>>
  IN
  IF img.data = "null"
    THEN [call EXCEPT !.exc = img.exc, !.heap = h1, !.trace = <<cv>>,
                      !.caller = ca]
  ELSE
    LET det == lfs_detect_minutiae_V2(image_obj.content, img.width,
                                      img.height)
        ev == Event("lfs_detect_minutiae_V2", "image",
                    <<img.width, img.height>>)
        tr == <<cv, ev>>
        h2 == IF det.ret = 0 THEN SetAll(h1, DetectorOutputs, "live") ELSE h1
        h3 == Free(h2, "image_data")
    IN IF det.ret # 0
         THEN [call EXCEPT !.exc = "RuntimeError", !.heap = h3,
                           !.trace = tr, !.caller = ca]
       ELSE
         LET num == Len(det.minutiae)
             minutiae_list == MinutiaeList(det.minutiae)
             bin_array == BinArray(det)
             h4 == FreeAll(h3, <<"minutiae", "direction_map",
                                 "low_contrast_map", "low_flow_map",
                                 "high_curve_map", "binarized">>)
         IN [call EXCEPT
               !.ret = [NullRet EXCEPT !.kind = "dict",
                                       !.minutiae = minutiae_list,
                                       !.count = num,
                                       !.binarized = bin_array],
               !.trace = tr,
               !.heap = h4,
               !.refs = ExtractRefs(num),
               !.caller = ca]

(***************************************************************************)
(* minutiae_to_xyt and match_fingerprints                                  *)
(***************************************************************************)

\* Lines 185-200 with the loop of line 192 running over every minutia.
minutiae_to_xyt_UncappedLoop(minutiae, max_count, oom) ==
  IF oom THEN [ptr |-> "null", xyt |-> NoXyt]
  ELSE
    LET count == IF Len(minutiae) < max_count THEN Len(minutiae)
                 ELSE max_count
        num == Len(minutiae)
    IN [ptr |-> "live",
        xyt |-> [nrows |-> count,
                 xcol |-> [i \in 1..num |-> minutiae[i].x],
                 ycol |-> [i \in 1..num |-> minutiae[i].y],
                 thetacol |-> [i \in 1..num |-> minutiae[i].direction]]]

\* minutiae: the detector's list, in detection order.  oom: malloc fails.
minutiae_to_xyt(minutiae, max_count, oom) ==
  IF oom THEN [ptr |-> "null", xyt |-> NoXyt]
  ELSE
    LET count == IF Len(minutiae) < max_count THEN Len(minutiae)
                 ELSE max_count
    IN [ptr |-> "live",
        xyt |-> [nrows |-> count,
                 xcol |-> [i \in 1..count |-> minutiae[i].x],
                 ycol |-> [i \in 1..count |-> minutiae[i].y],
                 thetacol |-> [i \in 1..count |-> minutiae[i].direction]]]

ProbeOutputs == <<"probe_min", "dmap1", "lcm1", "lfm1", "hcm1", "bin1">>

GalleryOutputs == <<"gallery_min", "dmap2", "lcm2", "lfm2", "hcm2", "bin2">>

Range(f) == {f[i] : i \in DOMAIN f}

MatchBuffers ==
  {"probe_data", "gallery_data", "probe_xyt", "gallery_xyt"}
    \cup Range(ProbeOutputs) \cup Range(GalleryOutputs)

AllocSites == {"probe_data", "gallery_data", "probe_xyt", "gallery_xyt"}

\* Lines 254-255 releasing the minutiae list only.
GalleryFailureFrees_ListOnly == <<"probe_min">>

\* Lines 254-255: the probe's buffers released when the gallery detection
\* fails.
GalleryFailureFrees == ProbeOutputs

\* Lines 266-271 and 279-284.
FinalFrees ==
  <<"probe_xyt", "gallery_xyt", "probe_min", "gallery_min",
    "dmap1", "lcm1", "lfm1", "hcm1", "bin1",
    "dmap2", "lcm2", "lfm2", "hcm2", "bin2">>

\* Line 219: either conversion failed.
ConversionFailed(p, g) == p.data = "null" \/ g.data = "null"

\* Lines 236 and 250 taking only a negative code for a failure.
DetectionFailed_NegativeOnly(ret) == ret < 0

\* Lines 236 and 250: any non-zero code ends the call.
DetectionFailed(ret) == ret # 0

\* oom: the allocation sites at which malloc fails.
nbis_match_fingerprints(probe_obj, gallery_obj, oom) ==
  LET h0 == [b \in MatchBuffers |->
               IF b \in {"probe_min", "gallery_min"} THEN "null"
               ELSE "uninit"]
      p == py_to_image_data(probe_obj, "probe_data" \in oom)
      g == py_to_image_data(gallery_obj, "gallery_data" \in oom)
      h1 == [h0 EXCEPT !["probe_data"] = p.data, !["gallery_data"] = g.data]
      t1 == <<ConvEvent("probe", p), ConvEvent("gallery", g)>>
      call == [NoCall EXCEPT !.op = "match_fingerprints",
                             !.args = <<probe_obj, gallery_obj, oom>>,
                             !.caller = <<CallerArray(p), CallerArray(g)>>]
  IN
  IF ConversionFailed(p, g)
    THEN [call EXCEPT !.exc = IF g.exc # "none" THEN g.exc ELSE p.exc,
                      !.heap = FreeAll(h1, <<"probe_data", "gallery_data">>),
                      !.trace = t1]
  ELSE
    LET det1 == lfs_detect_minutiae_V2(probe_obj.content, p.width, p.height)
        t2 == Append(t1, Event("lfs_detect_minutiae_V2", "probe",
                               <<p.width, p.height>>))
        h2 == Free(IF det1.ret = 0
                     THEN SetAll(h1, Range(ProbeOutputs), "live") ELSE h1,
                   "probe_data")
    IN
    IF DetectionFailed(det1.ret)
      THEN [call EXCEPT !.exc = "RuntimeError",
                        !.heap = Free(h2, "gallery_data"), !.trace = t2]
    ELSE
      LET det2 == lfs_detect_minutiae_V2(gallery_obj.content, g.width,
                                         g.height)
          t3 == Append(t2, Event("lfs_detect_minutiae_V2", "gallery",
                                 <<g.width, g.height>>))
          h3 == Free(IF det2.ret = 0
                       THEN SetAll(h2, Range(GalleryOutputs), "live") ELSE h2,
                     "gallery_data")
      IN
      IF DetectionFailed(det2.ret)
        THEN [call EXCEPT !.exc = "RuntimeError",
                          !.heap = FreeAll(h3, GalleryFailureFrees),
                          !.trace = t3]
      ELSE
        LET probe_xyt == minutiae_to_xyt(det1.minutiae, MAX_BOZORTH_MINUTIAE,
                                         "probe_xyt" \in oom)
            gallery_xyt == minutiae_to_xyt(det2.minutiae,
                                           MAX_BOZORTH_MINUTIAE,
                                           "gallery_xyt" \in oom)
            t4 == t3 \o <<Event("minutiae_to_xyt", "probe",
                                <<MAX_BOZORTH_MINUTIAE>>),
                          Event("minutiae_to_xyt", "gallery",
                                <<MAX_BOZORTH_MINUTIAE>>)>>
            h4 == [h3 EXCEPT !["probe_xyt"] = probe_xyt.ptr,
                             !["gallery_xyt"] = gallery_xyt.ptr]
        IN
        IF probe_xyt.ptr = "null" \/ gallery_xyt.ptr = "null"
          THEN [call EXCEPT !.exc = "RuntimeError",
                            !.heap = FreeAll(h4, FinalFrees),
                            !.trace = t4,
                            !.probe_xyt = probe_xyt.xyt,
                            !.gallery_xyt = gallery_xyt.xyt]
        ELSE
          [call EXCEPT
               !.ret = PyLong_FromLong(
                       bz_match_score(DEFAULT_BOZORTH_MINUTIAE,
                                      probe_xyt.xyt, gallery_xyt.xyt)),
               !.trace = Append(t4, Event("bz_match_score", "-",
                                        <<DEFAULT_BOZORTH_MINUTIAE>>)),
               !.heap = FreeAll(h4, FinalFrees),
               !.probe_xyt = probe_xyt.xyt,
               !.gallery_xyt = gallery_xyt.xyt]

(***************************************************************************)
(* compute_nfiq                                                            *)
(***************************************************************************)

\* Lines 325-328 reading nfiq_value where the engine left it unwritten on a
\* positive code: the value is what an earlier call left on the stack.
NfiqResult_Unwritten(q) ==
  [NullRet EXCEPT !.kind = "dict",
                  !.quality = IF q.ret > 0
                              THEN (IF memo.op = "none" THEN 0 ELSE 1)
                              ELSE q.nfiq,
                  !.confidence = q.conf,
                  !.return_code = q.ret]

\* Lines 325-328: the result dict.
NfiqResult(q) ==
  [NullRet EXCEPT !.kind = "dict",
                  !.quality = q.nfiq,
                  !.confidence = q.conf,
                  !.return_code = q.ret]

\* Line 320 testing for any non-zero code.
NfiqFailed_AnyNonZero(ret) == ret # 0

\* Line 320: only a negative code is a failure.
NfiqFailed(ret) == ret < 0

nbis_compute_nfiq(image_obj, ppi, oom) ==
  LET call == [NoCall EXCEPT !.op = "compute_nfiq",
                             !.args = <<image_obj, ppi, oom>>]
      img == py_to_image_data(image_obj, oom)
      cv == ConvEvent("image", img)
      h1 == [b \in {"image_data"} |-> img.data]
      ca == <<CallerArray(img)>>
  IN
  IF img.data = "null"
    THEN [call EXCEPT !.exc = img.exc, !.heap = h1, !.trace = <<cv>>,
                      !.caller = ca]
  ELSE
    LET q == comp_nfiq(image_obj.content, img.width, img.height, img.depth,
                       ppi)
        ev == Event("comp_nfiq", "image",
                    <<img.width, img.height, img.depth, ppi>>)
        tr == <<cv, ev>>
        h2 == Free(h1, "image_data")
    IN IF NfiqFailed(q.ret)
         THEN [call EXCEPT !.exc = "RuntimeError", !.heap = h2,
                           !.trace = tr, !.caller = ca]
       ELSE [call EXCEPT
               !.ret = NfiqResult(q),
               !.trace = tr,
               !.heap = h2,
               !.caller = ca]

(***************************************************************************)
(* Actions                                                                 *)
(***************************************************************************)

Init ==
  /\ m1_xyt = 0
  /\ max_minutiae = MAX_BOZORTH_MINUTIAE
  /\ min_computable_minutiae = MIN_COMPUTABLE_BOZORTH_MINUTIAE
  /\ verbose_main = 0
  /\ verbose_load = 0
  /\ verbose_bozorth = 0
  /\ verbose_threshold = 0
  /\ errorfp = "NULL"
  /\ initialised = FALSE
  /\ last = NoCall
  /\ memo = NoCall

PyInit__nbis_ext ==
  /\ ~initialised
  /\ errorfp' = IF errorfp = "NULL" THEN "stderr" ELSE errorfp
  /\ initialised' = TRUE
  /\ UNCHANGED <<m1_xyt, max_minutiae, min_computable_minutiae, verbose_main,
                 verbose_load, verbose_bozorth, verbose_threshold, last, memo>>

\* The interpreter runs one call at a time: a handler starts when no call
\* is outstanding.
Idle == initialised /\ last.op = "none"

\* What the history keeps when a call returns c: the first call it chose
\* to remember, if it remembers any.
Remember(c, record) ==
  IF record /\ memo.op = "none" THEN {memo, c} ELSE {memo}

ExtractMinutiaeOn(images, record) ==
  /\ Idle
  /\ \E image_obj \in images, ppi \in PpiValues, oom \in BOOLEAN :
       LET c == nbis_extract_minutiae(image_obj, ppi, oom)
       IN last' = c /\ memo' \in Remember(c, record)
  /\ UNCHANGED <<globals, initialised>>

ComputeNfiqOn(images, record) ==
  /\ Idle
  /\ \E image_obj \in images, ppi \in PpiValues, oom \in BOOLEAN :
       LET c == nbis_compute_nfiq(image_obj, ppi, oom)
       IN last' = c /\ memo' \in Remember(c, record)
  /\ UNCHANGED <<globals, initialised>>

MatchFingerprintsOn(images, ooms, record) ==
  /\ Idle
  /\ \E probe_obj \in images, gallery_obj \in images, oom \in ooms :
       LET c == nbis_match_fingerprints(probe_obj, gallery_obj, oom)
       IN last' = c /\ memo' \in Remember(c, record)
  /\ UNCHANGED <<globals, initialised>>

MatchXytOn(lists, record) ==
  /\ Idle
  /\ \E probe_list \in lists, gallery_list \in lists :
       LET c == nbis_match_xyt(probe_list, gallery_list)
       IN last' = c /\ memo' \in Remember(c, record)
  /\ UNCHANGED <<globals, initialised>>

ExtractMinutiae == ExtractMinutiaeOn(Images, FALSE)

ComputeNfiq == ComputeNfiqOn(Images, FALSE)

MatchFingerprints == MatchFingerprintsOn(Images, SUBSET AllocSites, FALSE)

MatchXyt == MatchXytOn(Lists, FALSE)

\* The caller takes the result (or the exception) of the outstanding call.
Return ==
  /\ last.op # "none"
  /\ last' = NoCall
  /\ UNCHANGED <<globals, initialised, memo>>

Next ==
  \/ PyInit__nbis_ext
  \/ ExtractMinutiae
  \/ ComputeNfiq
  \/ MatchFingerprints
  \/ MatchXyt
  \/ Return

Spec == Init /\ [][Next]_vars

(***************************************************************************)
(* The history specification: the same handlers on fewer inputs, with the  *)
(* first call the history chose to remember kept in memo.                  *)
(***************************************************************************)

HistImages ==
  {ArrayImage(<<ImgH, ImgW>>, "ridges"), ArrayImage(<<ImgH, ImgW>>, "dense"),
   ArrayImage(<<ImgH, ImgW>>, "blank"), ArrayImage(<<ImgH, ImgW>>, "fatal"),
   ArrayImage(<<ImgH, ImgW, 3>>, "ridges")}

HistOoms == {{}} \cup {{a} : a \in AllocSites}

HistLists ==
  {GoodList(0), GoodList(MAX_BOZORTH_MINUTIAE), GoodList(MaxListLen),
   BadList(1, 1, "str_x"), BadList(1, 1, "no_y"), NotAList}

ExtractMinutiaeH == ExtractMinutiaeOn(HistImages, TRUE)

ComputeNfiqH == ComputeNfiqOn(HistImages, TRUE)

MatchFingerprintsH == MatchFingerprintsOn(HistImages, HistOoms, TRUE)

\* match_xyt storing the probe count in the global cap.
MatchXytH_StoresCount ==
  /\ Idle
  /\ \E probe_list \in HistLists, gallery_list \in HistLists :
       LET c == nbis_match_xyt(probe_list, gallery_list)
       IN /\ last' = c
          /\ memo' \in Remember(c, TRUE)
          /\ max_minutiae' = c.probe_xyt.nrows
  /\ UNCHANGED <<m1_xyt, min_computable_minutiae, verbose_main, verbose_load,
                 verbose_bozorth, verbose_threshold, errorfp, initialised>>

MatchXytH == MatchXytOn(HistLists, TRUE)

NextHist ==
  \/ PyInit__nbis_ext
  \/ ExtractMinutiaeH
  \/ ComputeNfiqH
  \/ MatchFingerprintsH
  \/ MatchXytH
  \/ Return

SpecHist == Init /\ [][NextHist]_vars

(***************************************************************************)
(* Properties of match_xyt                                                 *)
(***************************************************************************)

IsMatchXyt == last.op = "match_xyt"

ProbeArg == last.args[1]

GalleryArg == last.args[2]

BothLists == IsMatchXyt /\ ProbeArg.isList /\ GalleryArg.isList

AnyMalformed(list) == \E i \in 1..Len(list.items) : Malformed(list.items[i])

\* The records the handler reads: those below the cap.
UsedWellFormed(list) ==
  \A i \in 1..Min(Len(list.items), MAX_BOZORTH_MINUTIAE) :
     ~Malformed(list.items[i])

MatcherCalls ==
  Cardinality({i \in 1..Len(last.trace) : last.trace[i].fn = "bz_match_score"})

\* C1: a malformed record at any position of the probe or the gallery list
\* makes match_xyt raise at once: the matcher is never invoked and no score
\* is returned.
C1_MalformedRecordRejected ==
  (BothLists /\ (AnyMalformed(ProbeArg) \/ AnyMalformed(GalleryArg)))
    => /\ last.exc # "none"
       /\ MatcherCalls = 0
       /\ last.ret.kind = "NULL"

\* The rows of an xyt structure are the first n records of the list.
RowsAreFirst(xyt, list, n) ==
  /\ xyt.nrows = n
  /\ Len(xyt.xcol) = n /\ Len(xyt.ycol) = n /\ Len(xyt.thetacol) = n
  /\ \A i \in 1..n :
       /\ xyt.xcol[i] = list.items[i].d.x.v
       /\ xyt.ycol[i] = list.items[i].d.y.v
       /\ xyt.thetacol[i] = list.items[i].d.direction.v

\* C2: a list longer than the cap never makes match_xyt raise: exactly
\* MAX_BOZORTH_MINUTIAE records of it are used and an integer score is
\* returned.
C2_OverlongListTruncated ==
  (/\ BothLists
   /\ UsedWellFormed(ProbeArg) /\ UsedWellFormed(GalleryArg)
   /\ \/ Len(ProbeArg.items) > MAX_BOZORTH_MINUTIAE
      \/ Len(GalleryArg.items) > MAX_BOZORTH_MINUTIAE)
    => /\ last.exc = "none"
       /\ last.ret.kind = "int"
       /\ MatcherCalls = 1
       /\ Len(ProbeArg.items) > MAX_BOZORTH_MINUTIAE
            => RowsAreFirst(last.probe_xyt, ProbeArg, MAX_BOZORTH_MINUTIAE)
       /\ Len(GalleryArg.items) > MAX_BOZORTH_MINUTIAE
            => RowsAreFirst(last.gallery_xyt, GalleryArg,
                            MAX_BOZORTH_MINUTIAE)

C2_Witness ==
  /\ BothLists
  /\ Len(ProbeArg.items) > MAX_BOZORTH_MINUTIAE
  /\ Len(GalleryArg.items) > MAX_BOZORTH_MINUTIAE
  /\ last.ret.kind = "int"
  /\ last.probe_xyt.nrows = MAX_BOZORTH_MINUTIAE
  /\ last.gallery_xyt.nrows = MAX_BOZORTH_MINUTIAE

(***************************************************************************)
(* Properties of the truncation                                            *)
(***************************************************************************)

IsMatchFingerprints == last.op = "match_fingerprints"

\* The minutiae the detector reports for an image argument.
Detected(image_obj) ==
  LET img == py_to_image_data(image_obj, FALSE)
  IN lfs_detect_minutiae_V2(image_obj.content, img.width, img.height)

\* The positions of the n most reliable entries of a sequence of
\* reliabilities, ties going to the earlier entry.
MostReliable(rel, n) ==
  {i \in 1..Len(rel) :
     Cardinality({j \in 1..Len(rel) :
                    rel[j] > rel[i] \/ (rel[j] = rel[i] /\ j < i)}) < n}

XytRowSet(xyt) ==
  {<<xyt.xcol[i], xyt.ycol[i], xyt.thetacol[i]>> : i \in 1..Len(xyt.xcol)}

KeepsMostReliableMinutiae(xyt, minutiae) ==
  Len(minutiae) > MAX_BOZORTH_MINUTIAE
    => /\ xyt.nrows = MAX_BOZORTH_MINUTIAE
       /\ XytRowSet(xyt) =
            {<<minutiae[i].x, minutiae[i].y, minutiae[i].direction>> :
               i \in MostReliable([k \in 1..Len(minutiae) |->
                                     minutiae[k].reliability],
                                  MAX_BOZORTH_MINUTIAE)}

KeepsMostReliableRecords(xyt, list) ==
  Len(list.items) > MAX_BOZORTH_MINUTIAE
    => /\ xyt.nrows = MAX_BOZORTH_MINUTIAE
       /\ XytRowSet(xyt) =
            {<<list.items[i].d.x.v, list.items[i].d.y.v,
               list.items[i].d.direction.v>> :
               i \in MostReliable([k \in 1..Len(list.items) |->
                                     list.items[k].d.quality.v],
                                  MAX_BOZORTH_MINUTIAE)}

\* C3: a minutiae set with more than MAX_BOZORTH_MINUTIAE entries that is
\* prepared for matching is cut to exactly that many entries, and the ones
\* kept are the most reliable, ties broken by detection order.
C3_TruncationKeepsMostReliable ==
  /\ (IsMatchFingerprints /\ MatcherCalls = 1)
       => /\ KeepsMostReliableMinutiae(last.probe_xyt,
                                       Detected(last.args[1]).minutiae)
          /\ KeepsMostReliableMinutiae(last.gallery_xyt,
                                       Detected(last.args[2]).minutiae)
  /\ (BothLists /\ ~AnyMalformed(ProbeArg) /\ ~AnyMalformed(GalleryArg))
       => /\ KeepsMostReliableRecords(last.probe_xyt, ProbeArg)
          /\ KeepsMostReliableRecords(last.gallery_xyt, GalleryArg)

(***************************************************************************)
(* Properties of the image entrypoints                                     *)
(***************************************************************************)

IsExtract == last.op = "extract_minutiae"

IsNfiq == last.op = "compute_nfiq"

EngineNames == {"lfs_detect_minutiae_V2", "comp_nfiq", "bz_match_score"}

EngineCalls ==
  Cardinality({i \in 1..Len(last.trace) : last.trace[i].fn \in EngineNames})

\* An image argument the contract rejects: not an array, or an array that
\* is neither 2-D nor 3-D with one channel.
ContractRejects(image_obj) ==
  \/ ~image_obj.isArray
  \/ Len(image_obj.shape) \notin {2, 3}
  \/ Len(image_obj.shape) = 3 /\ image_obj.shape[3] # 1

Rejected == last.exc # "none" /\ last.ret.kind = "NULL" /\ EngineCalls = 0

\* C4: extract_minutiae, compute_nfiq and match_fingerprints reject an
\* image that is not an array or has an unsupported shape before any engine
\* runs, and return nothing; in match_fingerprints one bad image suffices.
C4_InvalidImageRejected ==
  /\ ((IsExtract \/ IsNfiq) /\ ContractRejects(last.args[1])) => Rejected
  /\ (IsMatchFingerprints
        /\ (ContractRejects(last.args[1]) \/ ContractRejects(last.args[2])))
       => Rejected

C4_Witness ==
  /\ IsMatchFingerprints
  /\ ~ContractRejects(last.args[1])
  /\ ContractRejects(last.args[2])
  /\ last.args[2].isArray
  /\ last.args[3] = {}
  /\ Rejected

\* The call reached the engine: the image was converted.
Converted == \E i \in 1..Len(last.trace) : last.trace[i].fn \in EngineNames

NfiqOutcome ==
  LET img == py_to_image_data(last.args[1], FALSE)
  IN comp_nfiq(last.args[1].content, img.width, img.height, img.depth,
               last.args[2])

\* C5: compute_nfiq returns a result exactly when the engine code is >= 0:
\* code 0 gives return_code 0, a positive code is returned as return_code
\* with the quality and the confidence, a negative code raises.
C5_NfiqOutcomeMapping ==
  (IsNfiq /\ Converted)
    => LET q == NfiqOutcome
       IN /\ (last.ret.kind # "NULL") <=> (q.ret >= 0)
          /\ q.ret >= 0 => /\ last.ret.kind = "dict"
                           /\ last.exc = "none"
                           /\ last.ret.return_code = q.ret
                           /\ last.ret.quality = q.nfiq
                           /\ last.ret.confidence = q.conf
          /\ q.ret < 0 => last.exc # "none"

C5_Witness ==
  /\ IsNfiq
  /\ Converted
  /\ NfiqOutcome.ret > 0
  /\ last.ret.kind = "dict"
  /\ last.ret.return_code = NfiqOutcome.ret

\* A well-formed image that is degenerate for the detector: no fatal code
\* and no minutiae.
Degenerate(image_obj) ==
  Detected(image_obj).ret >= 0 /\ Detected(image_obj).minutiae = <<>>

\* C6: extract_minutiae on a well-formed but degenerate image, also one for
\* which the detector reports a positive code, returns an empty minutiae
\* list and count 0 and does not raise.
C6_DegenerateImageEmptyResult ==
  (IsExtract /\ Converted /\ Degenerate(last.args[1]))
    => /\ last.exc = "none"
       /\ last.ret.kind = "dict"
       /\ last.ret.minutiae = <<>>
       /\ last.ret.count = 0

(***************************************************************************)
(* Properties of the resources                                             *)
(***************************************************************************)

\* No buffer is live at the exit, none was freed twice, none was freed
\* before it was assigned.
BuffersReleased ==
  \A b \in DOMAIN last.heap : last.heap[b] \in {"uninit", "null", "freed"}

\* C7: on every exit path of match_fingerprints every buffer acquired so
\* far has been released exactly once.
C7_MatchFingerprintsReleasesBuffers ==
  IsMatchFingerprints => BuffersReleased

C7_Witness ==
  /\ IsMatchFingerprints
  /\ last.exc = "RuntimeError"
  /\ last.heap["probe_min"] = "freed"
  /\ last.heap["bin1"] = "freed"
  /\ last.heap["gallery_data"] = "freed"
  /\ last.heap["gallery_min"] = "null"
  /\ last.heap["probe_xyt"] = "uninit"

\* C8: on every exit path of extract_minutiae every C buffer is freed
\* exactly once and every Python object built for the result is left with
\* the one reference the result dict holds.
C8_ExtractReleasesEverything ==
  IsExtract
    => /\ BuffersReleased
       /\ last.ret.kind = "dict"
            => /\ last.refs.result = 1
               /\ last.refs.minutiae_list = 1
               /\ last.refs.count = 1
               /\ last.refs.bin_array = 1
               /\ \A i \in 1..Len(last.refs.min_dict) :
                    last.refs.min_dict[i] = 1

(***************************************************************************)
(* Properties of the calls' independence                                   *)
(***************************************************************************)

\* The remembered call and the last call are the same call.
SameCall == memo.op # "none" /\ last.op = memo.op /\ last.args = memo.args

\* C9: after the initialisation no call changes a module-level variable,
\* and what a call does is the same whatever calls preceded it.
C9_NoCrossCallState ==
  [][/\ initialised => globals' = globals
     /\ (SameCall => last = memo)']_vars

C9_Witness ==
  /\ initialised
  /\ errorfp = "stderr"
  /\ max_minutiae = MAX_BOZORTH_MINUTIAE
  /\ memo.op = "match_xyt"
  /\ SameCall
  /\ last.ret.kind = "int"
  /\ last.ret.score > 0

RowValue(o) == IF o.ty = "int" THEN o.v ELSE -1

\* Every row below nrows was written from the list, and nrows is the number
\* of rows written.
RowsFromList(xyt, list) ==
  LET n == Min(Len(list.items), MAX_BOZORTH_MINUTIAE)
  IN /\ xyt.nrows = n
     /\ Len(xyt.xcol) = n /\ Len(xyt.ycol) = n /\ Len(xyt.thetacol) = n
     /\ \A i \in 1..n :
          /\ xyt.xcol[i] = RowValue(list.items[i].d.x)
          /\ xyt.ycol[i] = RowValue(list.items[i].d.y)
          /\ xyt.thetacol[i] = RowValue(list.items[i].d.direction)

\* C11: match_xyt is deterministic: whenever the matcher runs, rows
\* 0..nrows-1 of both structures were written from the lists and nrows is
\* the number of rows written, and a repeated call returns what the first
\* call returned.
C11_MatchXytDeterministic ==
  /\ (IsMatchXyt /\ MatcherCalls = 1)
       => /\ RowsFromList(last.probe_xyt, ProbeArg)
          /\ RowsFromList(last.gallery_xyt, GalleryArg)
  /\ (memo.op = "match_xyt" /\ SameCall)
       => last.ret = memo.ret /\ last.exc = memo.exc

C11_Witness ==
  /\ memo.op = "match_xyt"
  /\ SameCall
  /\ Len(ProbeArg.items) > MAX_BOZORTH_MINUTIAE
  /\ Len(GalleryArg.items) = MAX_BOZORTH_MINUTIAE
  /\ last.ret.kind = "int"
  /\ last.ret.score > 0

\* A list whose records are all well formed.
WellFormedList(list) == list.isList /\ ~AnyMalformed(list)

\* C12: a match against the empty set scores 0 in both argument positions:
\* for a well-formed list S, match_xyt([], S) and match_xyt(S, []) return 0
\* and raise nothing.
C12_EmptySetScoresZero ==
  (/\ IsMatchXyt
   /\ WellFormedList(ProbeArg) /\ WellFormedList(GalleryArg)
   /\ (Len(ProbeArg.items) = 0 \/ Len(GalleryArg.items) = 0))
    => /\ last.ret = PyLong_FromLong(0)
       /\ last.exc = "none"

C12_Witness ==
  /\ IsMatchXyt
  /\ Len(ProbeArg.items) > MAX_BOZORTH_MINUTIAE
  /\ WellFormedList(ProbeArg)
  /\ GalleryArg = GoodList(0)
  /\ MatcherCalls = 1
  /\ last.ret = PyLong_FromLong(0)

\* C13: two single-minutia sets score 0: for well-formed records p and g,
\* equal or not, match_xyt([p], [g]) returns 0.
C13_SingleMinutiaScoresZero ==
  (/\ IsMatchXyt
   /\ WellFormedList(ProbeArg) /\ WellFormedList(GalleryArg)
   /\ Len(ProbeArg.items) = 1 /\ Len(GalleryArg.items) = 1)
    => /\ last.ret = PyLong_FromLong(0)
       /\ last.exc = "none"

C13_Witness ==
  /\ IsMatchXyt
  /\ ProbeArg = GoodList(1)
  /\ GalleryArg = GoodList(1)
  /\ MatcherCalls = 1
  /\ last.ret = PyLong_FromLong(0)

(***************************************************************************)
(* Properties of the extraction result                                     *)
(***************************************************************************)

\* The image argument of an extract_minutiae or compute_nfiq call.
ImageArg == last.args[1]

\* The true dimensions of an image object.
TrueHeight(image_obj) == image_obj.shape[1]

TrueWidth(image_obj) == image_obj.shape[2]

Extracted == IsExtract /\ last.ret.kind = "dict"

\* C14: every minutia extract_minutiae returns lies inside the image:
\* 0 <= x < width and 0 <= y < height.
C14_MinutiaeInsideImage ==
  Extracted =>
    \A i \in 1..Len(last.ret.minutiae) :
       LET d == last.ret.minutiae[i]
       IN /\ 0 <= d.x /\ d.x < TrueWidth(ImageArg)
          /\ 0 <= d.y /\ d.y < TrueHeight(ImageArg)

C14_Witness ==
  /\ Extracted
  /\ Len(last.ret.minutiae) > MAX_BOZORTH_MINUTIAE
  /\ \E i \in 1..Len(last.ret.minutiae) :
        last.ret.minutiae[i].x = TrueWidth(ImageArg) - 1

\* C15: the ppi given to extract_minutiae determines the processing: the
\* detector is invoked with the resolution the caller passed.
C15_PpiReachesDetector ==
  (IsExtract /\ Converted) =>
    \E i \in 1..Len(last.trace) :
       /\ last.trace[i].fn = "lfs_detect_minutiae_V2"
       /\ last.args[2] \in Range(last.trace[i].args)

(***************************************************************************)
(* Properties of the image conversion                                      *)
(***************************************************************************)

ImageBuffers == {"image_data", "probe_data", "gallery_data"}

TakesImage == IsExtract \/ IsNfiq \/ IsMatchFingerprints

\* C16: the caller's image is read-only: the engines work on a private copy
\* only, the caller's array is left as it was on every exit path, and the
\* private copy is freed before the handler returns.
C16_CallerImageReadOnly ==
  TakesImage =>
    /\ \A i \in DOMAIN last.caller : last.caller[i] = "intact"
    /\ \A b \in ImageBuffers \cap DOMAIN last.heap :
         /\ last.heap[b] \in {"null", "freed"}
         /\ Converted => last.heap[b] = "freed"

C16_Witness ==
  /\ IsMatchFingerprints
  /\ last.exc = "RuntimeError"
  /\ Len(last.trace) = 4
  /\ last.caller = <<"intact", "intact">>
  /\ last.heap["probe_data"] = "freed"
  /\ last.heap["gallery_data"] = "freed"

\* The image object a conversion ran on.
ImageOf(who) == IF who = "gallery" THEN last.args[2] ELSE last.args[1]

\* C17: the pixel buffer handed to the engines has exactly width x height
\* bytes of the image's true dimensions: for every accepted image the
\* narrowing to int and the int product lose nothing.
C17_BufferLengthIsWidthTimesHeight ==
  TakesImage =>
    \A i \in 1..Len(last.trace) :
       LET e == last.trace[i]
       IN (e.fn = "py_to_image_data" /\ e.args # <<>>) =>
            /\ e.args[1] = TrueWidth(ImageOf(e.who))
            /\ e.args[2] = TrueHeight(ImageOf(e.who))
            /\ e.args[3] = TrueWidth(ImageOf(e.who))
                             * TrueHeight(ImageOf(e.who))

\* C18: the binarized image extract_minutiae returns has the source image's
\* shape (height, width) and holds exactly width x height bytes, those of the
\* detector's binarized buffer.
C18_BinarizedHasSourceShape ==
  Extracted =>
    LET b == last.ret.binarized
        w == TrueWidth(ImageArg)
        h == TrueHeight(ImageArg)
    IN /\ b.shape = <<h, w>>
       /\ Len(b.data) = w * h
       /\ b.data = Detected(ImageArg).binarized

\* C19: every minutia extract_minutiae returns has one of the two types, and
\* its type_str agrees with it: "ending" exactly for a ridge ending,
\* "bifurcation" exactly for a bifurcation.
C19_TypeAndTypeStrAgree ==
  Extracted =>
    \A i \in 1..Len(last.ret.minutiae) :
       LET d == last.ret.minutiae[i]
       IN /\ d.type \in {RIDGE_ENDING, BIFURCATION}
          /\ d.type_str \in {"ending", "bifurcation"}
          /\ d.type_str = "ending" <=> d.type = RIDGE_ENDING
          /\ d.type_str = "bifurcation" <=> d.type = BIFURCATION

C19_Witness ==
  /\ Extracted
  /\ \E i \in 1..Len(last.ret.minutiae) :
        last.ret.minutiae[i].type_str = "ending"
  /\ \E i \in 1..Len(last.ret.minutiae) :
        last.ret.minutiae[i].type_str = "bifurcation"

(***************************************************************************)
(* The order of the steps of match_fingerprints                            *)
(***************************************************************************)

StepOrder ==
  <<<<"py_to_image_data", "probe">>, <<"py_to_image_data", "gallery">>,
    <<"lfs_detect_minutiae_V2", "probe">>,
    <<"lfs_detect_minutiae_V2", "gallery">>,
    <<"minutiae_to_xyt", "probe">>, <<"minutiae_to_xyt", "gallery">>,
    <<"bz_match_score", "-">>>>

\* The conversion of an image fails when the contract rejects it, when it
\* cannot be cast to bytes or when its buffer cannot be allocated.
ConversionFails(image_obj, site) ==
  \/ ContractRejects(image_obj)
  \/ ~image_obj.castable
  \/ site \in last.args[3]

\* The number of steps the call takes: it stops after the first failure.
StepsTaken ==
  IF \/ ConversionFails(last.args[1], "probe_data")
     \/ ConversionFails(last.args[2], "gallery_data") THEN 2
  ELSE IF Detected(last.args[1]).ret # 0 THEN 3
  ELSE IF Detected(last.args[2]).ret # 0 THEN 4
  ELSE IF "probe_xyt" \in last.args[3] \/ "gallery_xyt" \in last.args[3]
    THEN 6
  ELSE 7

\* C20: match_fingerprints runs its steps in a fixed order and stops at the
\* first failure: both conversions first, the probe's detection only after
\* both succeeded, the gallery's detection only after the probe's returned
\* 0, the matcher only after both detections and both XYT conversions
\* succeeded; when both detections would fail, the call ends with the
\* probe's.
C20_StepsInOrderWithEarlyExit ==
  IsMatchFingerprints =>
    /\ Len(last.trace) = StepsTaken
    /\ \A i \in 1..Len(last.trace) :
         <<last.trace[i].fn, last.trace[i].who>> = StepOrder[i]
    /\ last.ret.kind = "int" <=> StepsTaken = 7
    /\ StepsTaken < 7 => last.ret = NullRet /\ last.exc # "none"
    /\ (/\ StepsTaken > 2
        /\ Detected(last.args[1]).ret # 0
        /\ Detected(last.args[2]).ret # 0)
         => /\ last.exc = "RuntimeError"
            /\ last.trace[Len(last.trace)].who = "probe"
            /\ \A i \in 1..Len(last.trace) :
                 last.trace[i].fn = "lfs_detect_minutiae_V2"
                   => last.trace[i].who = "probe"

C20_Witness ==
  /\ IsMatchFingerprints
  /\ Len(last.trace) = 3
  /\ last.exc = "RuntimeError"
  /\ Detected(last.args[1]).ret > 0
  /\ Detected(last.args[2]).ret < 0

(***************************************************************************)
(* The bounds of the row arrays                                            *)
(***************************************************************************)

\* The rows written are those at indices 0..Len-1 of each column: none lies
\* at or beyond the capacity of the arrays.
WrittenWithinCapacity(xyt) ==
  /\ Len(xyt.xcol) <= MAX_BOZORTH_MINUTIAE
  /\ Len(xyt.ycol) <= MAX_BOZORTH_MINUTIAE
  /\ Len(xyt.thetacol) <= MAX_BOZORTH_MINUTIAE

\* nrows is the capped size of the input and the number of rows written.
RowsCounted(xyt, n) ==
  /\ xyt.nrows = Min(n, MAX_BOZORTH_MINUTIAE)
  /\ Len(xyt.xcol) = xyt.nrows
  /\ Len(xyt.ycol) = xyt.nrows
  /\ Len(xyt.thetacol) = xyt.nrows

\* C21: whatever the size of the input sets, no row of an xyt structure is
\* written at an index >= MAX_BOZORTH_MINUTIAE, and whenever the matcher
\* runs nrows is min(number of input minutiae, MAX_BOZORTH_MINUTIAE) and the
\* number of rows written, in match_xyt and in match_fingerprints alike.
C21_XytRowsWithinCapacity ==
  /\ WrittenWithinCapacity(last.probe_xyt)
  /\ WrittenWithinCapacity(last.gallery_xyt)
  /\ (IsMatchXyt /\ MatcherCalls = 1)
       => /\ RowsCounted(last.probe_xyt, Len(ProbeArg.items))
          /\ RowsCounted(last.gallery_xyt, Len(GalleryArg.items))
  /\ (IsMatchFingerprints /\ MatcherCalls = 1)
       => /\ RowsCounted(last.probe_xyt,
                         Len(Detected(last.args[1]).minutiae))
          /\ RowsCounted(last.gallery_xyt,
                         Len(Detected(last.args[2]).minutiae))

C21_Witness ==
  /\ IsMatchFingerprints
  /\ MatcherCalls = 1
  /\ Len(Detected(last.args[1]).minutiae) > MAX_BOZORTH_MINUTIAE
  /\ Len(Detected(last.args[2]).minutiae) < MAX_BOZORTH_MINUTIAE
  /\ last.probe_xyt.nrows = MAX_BOZORTH_MINUTIAE
  /\ last.ret.kind = "int"

\* C22: in every result of extract_minutiae, count is the length of the
\* minutiae list, and entry i of the list is built from the detector's
\* entry i, with x, y, direction, type and quality copied unchanged.
C22_CountAndOrderOfMinutiae ==
  Extracted =>
    LET found == Detected(ImageArg).minutiae
        list == last.ret.minutiae
    IN /\ last.ret.count = Len(list)
       /\ Len(list) = Len(found)
       /\ \A i \in 1..Len(list) :
            /\ list[i].x = found[i].x
            /\ list[i].y = found[i].y
            /\ list[i].direction = found[i].direction
            /\ list[i].type = found[i].type
            /\ list[i].quality = found[i].reliability

C22_Witness ==
  /\ Extracted
  /\ last.ret.count > MAX_BOZORTH_MINUTIAE
  /\ last.ret.count = Len(last.ret.minutiae)
  /\ last.ret.minutiae[1].direction # last.ret.minutiae[2].direction

====
